---- MODULE Spec2Model ----
(***************************************************************************)
(* Model of jsii/python.py: the class-level property descriptor            *)
(* _ClassProperty, its entry points class_property / classproperty, and    *)
(* the metaclass _ClassPropertyMeta that intercepts class-level            *)
(* assignment.  The host attribute protocol the file relies on             *)
(* (type.__getattribute__, object.__getattribute__, object.__setattr__,    *)
(* type.__setattr__, function/classmethod/staticmethod binding) is         *)
(* modelled as far as the file calls into it.                              *)
(***************************************************************************)
EXTENDS Integers, Sequences, FiniteSets, TLC

\* ------------------------------------------------------------ bounds
\* number of descriptor objects that may be created
MaxDesc == 1
\* number of distinct plain (non-descriptor) values a program assigns
MaxVal == 1

\* ------------------------------------------------------------ values
\* Every Python object of the model is a pair <<tag, n>>.
None == <<"None", 0>>
\* a missing dictionary entry
Absent == <<"absent", 0>>
Val(i) == <<"val", i>>
Desc(i) == <<"desc", i>>
\* the metaclass _ClassPropertyMeta itself
Meta == <<"class", 0>>
\* a class K whose type is the metaclass, and a subclass Sub of K
K == <<"class", 1>>
Sub == <<"class", 2>>
\* an instance of class number c; the program holds one instance of K
Inst(c) == <<"inst", c>>
AttributeError == <<"exc", 1>>
TypeError == <<"exc", 2>>

Classes == {K, Sub}
Instances == {Inst(1)}
\* the plain values a program assigns; Val(0), the static value before any
\* assignment, is none of them
Vals == {Val(i) : i \in 1..MaxVal}
Descs == {Desc(i) : i \in 1..MaxDesc}
\* what a program may assign to the attribute
Assignable == Vals \cup Descs
\* the attribute name the descriptor is bound to
Names == {"n"}

\* A callable: the wrapper kind and the underlying function.  The getter
\* function is  def n(cls): return <static value of cls>  and the setter
\* function is  def n(cls, value): <static value of cls> = value .
Kinds == {"function", "classmethod", "staticmethod"}
NoFunc == [kind |-> "None", role |-> "None"]
Getters == [kind : Kinds, role : {"fget"}]
Setters == [kind : Kinds, role : {"fset"}]

IsExc(v) == v[1] = "exc"

VARIABLES
    heap,   \* the _ClassProperty objects: heap[i] is the object Desc(i)
    cdict,  \* cdict[c][key]: the class's own __dict__ entry
    idict,  \* idict[i][key]: the instance's own __dict__ entry
    store,  \* the static value the getter/setter functions read and write
    last    \* the last operation: its inputs, its result and the calls it made

vars == <<heap, cdict, idict, store, last>>

\* ------------------------------------------------------------ host object model
\* type(obj)
TypeOf(obj) == IF obj[1] = "inst" THEN <<"class", obj[2]>> ELSE Meta

\* the method resolution order of a class (object, which defines no name
\* of interest, is left out)
MRO(c) == IF c = Sub THEN <<Sub, K>> ELSE IF c = K THEN <<K>> ELSE <<>>

\* the first entry for key along the MRO of c
RECURSIVE LookupFrom(_, _, _)
LookupFrom(mro, key, cd) ==
    IF mro = <<>> THEN Absent
    ELSE IF cd[Head(mro)][key] # Absent THEN cd[Head(mro)][key]
    ELSE LookupFrom(Tail(mro), key, cd)

Lookup(c, key, cd) == LookupFrom(MRO(c), key, cd)

\* isinstance(obj, _ClassProperty)
isinstance(obj) == obj[1] = "desc"

\* func.__get__(obj, klass): the arguments the binding puts in front
Bind(func, obj, klass) ==
    IF func.kind = "classmethod" THEN <<klass>>
    ELSE IF func.kind = "staticmethod" THEN <<>>
    ELSE IF obj = None THEN <<>> ELSE <<obj>>

\* Calling the underlying function with args.  A call with the wrong
\* number of arguments raises TypeError before the body runs.
Invoke(func, args, st) ==
    LET call == [f |-> func.role, args |-> args]
    IN  IF func.role = "fget" /\ Len(args) = 1
        THEN [res |-> st[args[1]], calls |-> <<call>>, store |-> st]
        ELSE IF func.role = "fset" /\ Len(args) = 2
        THEN [res |-> None, calls |-> <<call>>,
              store |-> [st EXCEPT ![args[1]] = args[2]]]
        ELSE [res |-> TypeError, calls |-> <<call>>, store |-> st]

\* ------------------------------------------------------------ _ClassProperty
\* _ClassProperty.__init__
__init__(fget, fset) == [fget |-> fget, fset |-> fset]

\* def class_property(func): return _ClassProperty(func)
class_property(func) == __init__(func, NoFunc)

\* the alias bound to an implementation of its own that wraps the getter
classproperty_wrapping(func) ==
    __init__([func EXCEPT !.kind = "classmethod"], NoFunc)

\* classproperty = class_property
classproperty(func) == class_property(func)

\* _ClassProperty.__get__(self, obj, klass=None)
__get__(d, obj, klass, st) ==
    LET k == IF klass = None THEN TypeOf(obj) ELSE klass
    IN  Invoke(heap[d].fget, Bind(heap[d].fget, obj, k) \o <<k>>, st)

\* __set__ storing the value on the class before it checks for a setter
__set__unchecked(d, obj, value, st) ==
    IF heap[d].fset = NoFunc
    THEN [res |-> AttributeError, calls |-> <<>>,
          store |-> [st EXCEPT ![TypeOf(obj)] = value]]
    ELSE Invoke(heap[d].fset,
                Bind(heap[d].fset, obj, TypeOf(obj)) \o <<value>>, st)

\* _ClassProperty.__set__(self, obj, value)
__set__(d, obj, value, st) ==
    IF heap[d].fset = NoFunc
    THEN [res |-> AttributeError, calls |-> <<>>, store |-> st]
    ELSE LET klass == TypeOf(obj)
         IN  Invoke(heap[d].fset,
                    Bind(heap[d].fset, obj, klass) \o <<value>>, st)

\* the callable setter() stores: anything but a classmethod or a
\* staticmethod is wrapped into a classmethod
Normalised(func) ==
    IF func.kind \notin {"classmethod", "staticmethod"}
    THEN [func EXCEPT !.kind = "classmethod"]
    ELSE func

\* setter() assigning to the wrong field
setter_into_fget(d, func) ==
    [heap |-> [heap EXCEPT ![d].fget = Normalised(func)], res |-> Desc(d)]

\* setter() that keeps the first setter it was given
setter_once(d, func) ==
    [heap |-> IF heap[d].fset = NoFunc
              THEN [heap EXCEPT ![d].fset = Normalised(func)]
              ELSE heap,
     res |-> Desc(d)]

\* setter() without the classmethod wrapping
setter_unwrapped(d, func) ==
    [heap |-> [heap EXCEPT ![d].fset = func], res |-> Desc(d)]

\* _ClassProperty.setter(self, func): the new heap and the returned object
setter(d, func) ==
    LET f == Normalised(func)
    IN  [heap |-> [heap EXCEPT ![d].fset = f], res |-> Desc(d)]

\* ------------------------------------------------------------ attribute access
\* getattr(cls, key) on a class: type.__getattribute__.  The metaclass
\* defines no data descriptor for key, so the class's MRO decides; a
\* _ClassProperty found there is asked through __get__(None, cls).
type_getattribute(c, key, st) ==
    LET attr == Lookup(c, key, cdict)
    IN  IF attr = Absent
        THEN [res |-> AttributeError, calls |-> <<>>, store |-> st]
        ELSE IF isinstance(attr) THEN __get__(attr[2], None, c, st)
        ELSE [res |-> attr, calls |-> <<>>, store |-> st]

\* getattr(self, key, None): only AttributeError becomes the default
getattr(c, key, default, st) ==
    LET r == type_getattribute(c, key, st)
    IN  IF r.res = AttributeError THEN [r EXCEPT !.res = default] ELSE r

\* obj.key on an instance: object.__getattribute__.  _ClassProperty
\* defines __set__, so it is a data descriptor and wins over the instance
\* dictionary.
object_getattribute(i, key, st) ==
    LET attr == Lookup(TypeOf(i), key, cdict)
    IN  IF isinstance(attr) THEN __get__(attr[2], i, TypeOf(i), st)
        ELSE IF idict[i][key] # Absent
        THEN [res |-> idict[i][key], calls |-> <<>>, store |-> st]
        ELSE IF attr # Absent THEN [res |-> attr, calls |-> <<>>, store |-> st]
        ELSE [res |-> AttributeError, calls |-> <<>>, store |-> st]

\* obj.key = value on an instance: object.__setattr__
object_setattr(i, key, value, st) ==
    LET attr == Lookup(TypeOf(i), key, cdict)
    IN  IF isinstance(attr)
        THEN __set__(attr[2], i, value, st) @@ [idict |-> idict]
        ELSE [res |-> None, calls |-> <<>>, store |-> st,
              idict |-> [idict EXCEPT ![i][key] = value]]

\* super().__setattr__(key, value): type.__setattr__ stores into the
\* class's own dictionary
type_setattr(c, key, value) == [cdict EXCEPT ![c][key] = value]

\* _ClassPropertyMeta.__setattr__(self, key, value)
__setattr__(self, key, value, st) ==
    LET r == getattr(self, key, None, st)
    IN  IF IsExc(r.res) THEN r @@ [cdict |-> cdict]
        ELSE IF isinstance(r.res)
        THEN LET s == __set__(r.res[2], self, value, r.store)
             IN  [res |-> s.res, calls |-> r.calls \o s.calls,
                  store |-> s.store, cdict |-> cdict]
        ELSE [res |-> None, calls |-> r.calls, store |-> r.store,
              cdict |-> type_setattr(self, key, value)]

\* ------------------------------------------------------------ operations
\* The record of an operation: the object it was performed on, the key, the
\* value or callable passed, what the key resolved to on the object's type
\* and the setter field before the operation, the result (a value, or the
\* exception raised) and the calls of the getter and setter functions.
Op(op, obj, key, arg, func, attr, prev, res, calls) ==
    [op |-> op, obj |-> obj, key |-> key, arg |-> arg, func |-> func,
     attr |-> attr, prev |-> prev, res |-> res, calls |-> calls]

Init ==
    /\ heap = <<>>
    /\ cdict = [c \in Classes |-> [key \in Names |-> Absent]]
    /\ idict = [i \in Instances |-> [key \in Names |-> Absent]]
    /\ store = [c \in Classes \cup {Meta} |-> Val(0)]
    /\ last = Op("init", None, "n", None, NoFunc, Absent, NoFunc, None, <<>>)

\* d = class_property(g)
CreatePrimary ==
    \E g \in Getters :
        /\ Len(heap) < MaxDesc
        /\ heap' = Append(heap, class_property(g))
        /\ last' = Op("class_property", None, "n", None, g, Absent,
                      NoFunc, Desc(Len(heap) + 1), <<>>)
        /\ UNCHANGED <<cdict, idict, store>>

\* d = classproperty(g)
CreateAlias ==
    \E g \in Getters :
        /\ Len(heap) < MaxDesc
        /\ heap' = Append(heap, classproperty(g))
        /\ last' = Op("classproperty", None, "n", None, g, Absent,
                      NoFunc, Desc(Len(heap) + 1), <<>>)
        /\ UNCHANGED <<cdict, idict, store>>

\* d.setter(func)
Builder ==
    \E d \in 1..Len(heap), func \in Setters :
        LET r == setter(d, func)
        IN  /\ heap' = r.heap
            /\ last' = Op("setter", Desc(d), "n", None, func, Absent,
                          heap[d].fset, r.res, <<>>)
            /\ UNCHANGED <<cdict, idict, store>>

\* cls.key
ClassRead ==
    \E c \in Classes, key \in Names :
        LET r == type_getattribute(c, key, store)
        IN  /\ last' = Op("class_read", c, key, None, NoFunc,
                          Lookup(c, key, cdict), NoFunc, r.res, r.calls)
            /\ store' = r.store
            /\ UNCHANGED <<heap, cdict, idict>>

\* obj.key
InstRead ==
    \E i \in Instances, key \in Names :
        LET r == object_getattribute(i, key, store)
        IN  /\ last' = Op("inst_read", i, key, None, NoFunc,
                          Lookup(TypeOf(i), key, cdict), NoFunc, r.res,
                          r.calls)
            /\ store' = r.store
            /\ UNCHANGED <<heap, cdict, idict>>

\* d.__get__(obj): the call that leaves klass at its default
DirectGet ==
    \E d \in 1..Len(heap), obj \in Instances :
        LET r == __get__(d, obj, None, store)
        IN  /\ last' = Op("direct_get", obj, "n", None, NoFunc, Desc(d),
                          NoFunc, r.res, r.calls)
            /\ store' = r.store
            /\ UNCHANGED <<heap, cdict, idict>>

\* K.key = value, on the class that defines the attribute
ClassAssign ==
    \E c \in {K}, key \in Names, value \in Assignable :
        /\ isinstance(value) => value[2] <= Len(heap)
        /\ LET r == __setattr__(c, key, value, store)
           IN  /\ last' = Op("class_assign", c, key, value, NoFunc,
                             Lookup(c, key, cdict), NoFunc, r.res, r.calls)
               /\ store' = r.store
               /\ cdict' = r.cdict
               /\ UNCHANGED <<heap, idict>>

\* obj.key = value
InstAssign ==
    \E i \in Instances, key \in Names, value \in Assignable :
        /\ isinstance(value) => value[2] <= Len(heap)
        /\ LET r == object_setattr(i, key, value, store)
           IN  /\ last' = Op("inst_assign", i, key, value, NoFunc,
                             Lookup(TypeOf(i), key, cdict), NoFunc, r.res,
                          r.calls)
               /\ store' = r.store
               /\ idict' = r.idict
               /\ UNCHANGED <<heap, cdict>>

Next ==
    \/ CreatePrimary
    \/ CreateAlias
    \/ Builder
    \/ ClassRead
    \/ InstRead
    \/ DirectGet
    \/ ClassAssign
    \/ InstAssign

Spec == Init /\ [][Next]_vars

\* ------------------------------------------------------------ properties
Assigns == {"class_assign", "inst_assign"}
Reads == {"class_read", "inst_read"}
\* the class a read through obj is performed for
EffectiveClass(obj) == IF obj[1] = "inst" THEN TypeOf(obj) ELSE obj
\* the calls of the setter function among calls
SetterCalls(calls) == SelectSeq(calls, LAMBDA c : c.f = "fset")
GetterCall(args) == [f |-> "fget", args |-> args]
SetterCall(args) == [f |-> "fset", args |-> args]
\* the last operation found a _ClassProperty under the key
OnDescriptor == isinstance(last.attr)
\* that descriptor's fields
LastDesc == heap[last.attr[2]]

\* C1: a class-level assignment K.n = v replaces K's entry for n exactly
\* when that entry is not a descriptor; when a descriptor occupies n the
\* assignment leaves K's entry holding the same descriptor object.
C1_DescriptorEntryKept ==
    [][last'.op = "class_assign" =>
        LET c == last'.obj
            key == last'.key
        IN  IF isinstance(cdict[c][key])
            THEN cdict'[c][key] = cdict[c][key]
            ELSE cdict'[c][key] = last'.arg]_vars

\* C2: for an attribute with getter and setter, K.n = v invokes the setter
\* exactly once, with K itself as receiver and v as value.
C2_ClassAssignCallsSetterWithClass ==
    (last.op = "class_assign" /\ OnDescriptor /\ LastDesc.fset # NoFunc)
        => SetterCalls(last.calls) = <<SetterCall(<<last.obj, last.arg>>)>>

\* C3: every assignment to an attribute whose descriptor has no setter,
\* on the class or on an instance, fails with AttributeError.
C3_GetterOnlyRejectsEveryWrite ==
    (last.op \in Assigns /\ OnDescriptor /\ LastDesc.fset = NoFunc)
        => last.res = AttributeError

\* C4: for a getter-only attribute, a read from an instance returns the
\* getter's value, the same value a read from its class returns.
C4_InstanceReadEqualsClassRead ==
    (last.op = "inst_read" /\ OnDescriptor /\ LastDesc.fset = NoFunc)
        => /\ ~IsExc(last.res)
           /\ last.res = type_getattribute(TypeOf(last.obj), last.key, store).res

\* C5: every read of the attribute invokes the getter exactly once with a
\* single argument, the effective class.
C5_GetterGetsEffectiveClassOnly ==
    (last.op \in Reads /\ OnDescriptor)
        => last.calls = <<GetterCall(<<EffectiveClass(last.obj)>>)>>

\* C6: setter() returns the descriptor it was called on, leaves its getter
\* unchanged and changes nothing but that descriptor's setter field.
C6_SetterReturnsSelf ==
    [][last'.op = "setter" =>
        LET d == last'.obj[2]
        IN  /\ last'.res = last'.obj
            /\ Len(heap') = Len(heap)
            /\ heap'[d].fget = heap[d].fget
            /\ \A e \in 1..Len(heap) : e # d => heap'[e] = heap[e]
            /\ cdict' = cdict /\ idict' = idict /\ store' = store]_vars

C6_Witness ==
    /\ last.op = "setter"
    /\ last.res = last.obj
    /\ heap[last.obj[2]].fset = Normalised(last.func)

\* C7 as stated: once a setter is attached, the descriptor's getter and
\* setter never change again, whatever operation follows.
C7_SetterAttachedOnce ==
    [][\A d \in 1..Len(heap) :
        heap[d].fset # NoFunc => heap'[d] = heap[d]]_vars

\* C7 as amended: a descriptor's getter never changes, and its setter
\* changes only through setter(), which always stores the normalised
\* callable it was given; reads and assignments change neither.
C7_OnlySetterChangesSetter ==
    [][/\ \A d \in 1..Len(heap) :
            /\ heap'[d].fget = heap[d].fget
            /\ heap'[d].fset # heap[d].fset
                => last'.op = "setter" /\ last'.obj = Desc(d)
       /\ last'.op = "setter"
            => heap'[last'.obj[2]].fset = Normalised(last'.func)]_vars

C7_Witness ==
    /\ last.op = "setter"
    /\ last.prev # NoFunc
    /\ heap[last.obj[2]].fset # last.prev

\* C8: the alias and the primary name are the same entry point: each
\* yields a descriptor holding the getter it was given and no setter.
C8_AliasSameEntryPoint ==
    /\ \A g \in Getters : classproperty(g) = class_property(g)
    /\ last.op \in {"class_property", "classproperty"}
        => heap[last.res[2]] = [fget |-> last.func, fset |-> NoFunc]

C8_Witness ==
    /\ last.op = "classproperty"
    /\ heap[last.res[2]] = [fget |-> last.func, fset |-> NoFunc]

\* C9 as stated: an assignment through an instance invokes the attached
\* setter, however it was wrapped, exactly once with the instance's class
\* and the value, creates no instance attribute and leaves the class's
\* entry holding the descriptor.
C9_InstanceAssignCallsSetterWithClass ==
    [][(last'.op = "inst_assign" /\ isinstance(last'.attr)
            /\ heap[last'.attr[2]].fset # NoFunc)
        => /\ last'.calls
                = <<SetterCall(<<TypeOf(last'.obj), last'.arg>>)>>
           /\ idict' = idict
           /\ cdict' = cdict]_vars

\* C9 as amended: a setter attached as a plain callable or a classmethod
\* is invoked once with the instance's class and the value, a
\* staticmethod setter once with the value alone; in both cases no
\* instance attribute is created and the class's entry is unchanged.
C9_InstanceAssignCallsSetter ==
    [][(last'.op = "inst_assign" /\ isinstance(last'.attr)
            /\ heap[last'.attr[2]].fset # NoFunc)
        => /\ last'.calls
                = IF heap[last'.attr[2]].fset.kind = "staticmethod"
                  THEN <<SetterCall(<<last'.arg>>)>>
                  ELSE <<SetterCall(<<TypeOf(last'.obj), last'.arg>>)>>
           /\ idict' = idict
           /\ cdict' = cdict]_vars

C9_Witness ==
    /\ last.op = "inst_assign"
    /\ OnDescriptor
    /\ LastDesc.fset.kind = "classmethod"
    /\ last.calls = <<SetterCall(<<K, last.arg>>)>>
    /\ store[K] = last.arg
    /\ idict[last.obj][last.key] = Absent

\* C10: a write rejected with AttributeError changes nothing: descriptor
\* fields, class entry, instance attributes and static value are as
\* before, no setter was invoked and every read returns what it returned
\* before.
C10_RejectedWriteChangesNothing ==
    [][(last'.op \in Assigns /\ last'.res = AttributeError)
        => /\ heap' = heap /\ cdict' = cdict /\ idict' = idict
           /\ store' = store
           /\ SetterCalls(last'.calls) = <<>>
           /\ \A c \in Classes, key \in Names :
                type_getattribute(c, key, store)'
                    = type_getattribute(c, key, store)
           /\ \A i \in Instances, key \in Names :
                object_getattribute(i, key, store)'
                    = object_getattribute(i, key, store)]_vars

C10_Witness ==
    /\ last.op \in Assigns
    /\ last.res = AttributeError
    /\ OnDescriptor
    /\ LastDesc.fset = NoFunc

====
